---- MODULE Spec2Model ----
(***************************************************************************)
(* FinSafeBot (src/main.py): the Explanation Arbiter ai_explain_safety     *)
(* with its process-wide cooldown / backoff state, run by several          *)
(* concurrent message handlers on one asyncio event loop, the remote call  *)
(* being executed by a worker thread (asyncio.to_thread).                  *)
(*                                                                         *)
(* Texts are sequences of one-character strings.  Times are whole seconds  *)
(* (time.time() and the float state of the source hold whole numbers in    *)
(* every run modelled here).  The Russian tip is written in Latin letters. *)
(***************************************************************************)
EXTENDS Integers, Sequences, FiniteSets, TLC

\* ------------------------------------------------------------------ bounds
MaxTicks == 2             \* how many times the clock advances
MaxRemoteCalls == 7       \* remote calls issued over the run
MaxTextLen == 3           \* the longest text drawn over EvalAlphabet
MaxUpdates == 3           \* messages and callbacks users send over the run

\* ------------------------------------------------------- program constants
ai_backoff_init == 60     \* _ai_backoff_sec at start
ai_backoff_max == 3600    \* _ai_backoff_max
MaxReply == 500           \* out[:500]
MaxPayload == 1500        \* (text or "")[:1500]

Handlers == {1, 2}
Langs == {"ru", "en"}
TickSteps == {31, 3600}

Min(a, b) == IF a <= b THEN a ELSE b

\* s[:n]
Take(s, n) == SubSeq(s, 1, Min(Len(s), n))

\* a text of n letters
Rep(n) == [i \in 1 .. n |-> "x"]

TipEn ==
  << "V", "e", "r", "i", "f", "y", " ", "t", "h", "e", " ", "s", "e", "n", "d", "e",
     "r", " ", "v", "i", "a", " ", "o", "f", "f", "i", "c", "i", "a", "l", " ", "p",
     "h", "o", "n", "e", ",", " ", "d", "o", "n", "'", "t", " ", "o", "p", "e", "n",
     " ", "l", "i", "n", "k", "s", " ", "o", "r", " ", "e", "n", "t", "e", "r", " ",
     "c", "r", "e", "d", "e", "n", "t", "i", "a", "l", "s", ".", " ", "I", "f", " ",
     "t", "h", "e", "y", " ", "a", "s", "k", " ", "f", "o", "r", " ", "m", "o", "n",
     "e", "y", "/", "c", "o", "d", "e", "s", " ", "-", " ", "i", "t", "'", "s", " ",
     "a", "l", "m", "o", "s", "t", " ", "c", "e", "r", "t", "a", "i", "n", "l", "y",
     " ", "a", " ", "s", "c", "a", "m", "." >>
TipRu ==
  << "P", "r", "o", "v", "e", "r", "t", "e", " ", "o", "t", "p", "r", "a", "v", "i",
     "t", "e", "l", "y", "a", " ", "p", "o", " ", "o", "f", "i", "c", "i", "a", "l",
     "n", "o", "m", "u", " ", "n", "o", "m", "e", "r", "u", ",", " ", "n", "e", " ",
     "p", "e", "r", "e", "h", "o", "d", "i", "t", "e", " ", "p", "o", " ", "s", "s",
     "y", "l", "k", "a", "m", " ", "i", " ", "n", "e", " ", "v", "v", "o", "d", "i",
     "t", "e", " ", "d", "a", "n", "n", "y", "e", ".", " ", "E", "s", "l", "i", " ",
     "p", "r", "o", "s", "y", "a", "t", " ", "d", "e", "n", "g", "i", "/", "k", "o",
     "d", " ", "-", " ", "e", "t", "o", " ", "p", "o", "c", "h", "t", "i", " ", "n",
     "a", "v", "e", "r", "n", "y", "a", "k", "a", " ", "m", "o", "s", "h", "e", "n",
     "n", "i", "k", "i", "." >>
ErrQuotaDelay30 ==
  << "4", "2", "9", " ", "Q", "u", "o", "t", "a", " ", "e", "x", "c", "e", "e", "d",
     "e", "d", ".", " ", "r", "e", "t", "r", "y", "_", "d", "e", "l", "a", "y", " ",
     "{", " ", "s", "e", "c", "o", "n", "d", "s", ":", " ", "3", "0", " ", "}" >>
ErrQuotaDelay0 ==
  << "4", "2", "9", " ", "r", "e", "t", "r", "y", " ", "d", "e", "l", "a", "y", " ",
     "0" >>
ErrQuotaDelayBig ==
  << "Q", "u", "o", "t", "a", " ", "e", "x", "h", "a", "u", "s", "t", "e", "d", ",",
     " ", "R", "e", "t", "r", "y", "_", "D", "e", "l", "a", "y", "=", "4", "0", "0",
     "0", "s" >>
ErrQuotaNoDelay ==
  << "4", "2", "9", " ", "R", "e", "s", "o", "u", "r", "c", "e", " ", "e", "x", "h",
     "a", "u", "s", "t", "e", "d" >>
ErrNetwork ==
  << "C", "o", "n", "n", "e", "c", "t", "i", "o", "n", " ", "r", "e", "s", "e", "t",
     " ", "b", "y", " ", "p", "e", "e", "r" >>
ErrDelayNoQuota ==
  << "b", "u", "s", "y", ":", " ", "r", "e", "t", "r", "y", "_", "d", "e", "l", "a",
     "y", " ", "7" >>

\* ------------------------------------------------------------ text helpers
WhiteSpace == {" ", "\t", "\n", "NBSP"}
Digits == <<"0", "1", "2", "3", "4", "5", "6", "7", "8", "9">>
UpperCase ==
  << "A", "B", "C", "D", "E", "F", "G", "H", "I", "J", "K", "L", "M",
     "N", "O", "P", "Q", "R", "S", "T", "U", "V", "W", "X", "Y", "Z" >>
LowerCase ==
  << "a", "b", "c", "d", "e", "f", "g", "h", "i", "j", "k", "l", "m",
     "n", "o", "p", "q", "r", "s", "t", "u", "v", "w", "x", "y", "z" >>

\* Cyrillic letters are written "#" and a Latin transliteration, capitals in
\* capitals; NBSP is U+00A0 and KZT_SIGN, EUR_SIGN, RUB_SIGN are the three
\* currency signs outside ASCII.
CyrLower ==
  <<
     "#a", "#b", "#v", "#g", "#d", "#e", "#zh", "#z", "#i", "#j", "#k", "#l",
     "#m", "#n", "#o", "#p", "#r", "#s", "#t", "#u", "#f", "#h", "#c", "#ch",
     "#sh", "#sch", "#hard", "#y", "#soft", "#eh", "#yu", "#ya"
  >>
CyrUpper ==
  <<
     "#A", "#B", "#V", "#G", "#D", "#E", "#ZH", "#Z", "#I", "#J", "#K", "#L",
     "#M", "#N", "#O", "#P", "#R", "#S", "#T", "#U", "#F", "#H", "#C", "#CH",
     "#SH", "#SCH", "#HARD", "#Y", "#SOFT", "#EH", "#YU", "#YA"
  >>

IsDigit(c) == \E i \in 1 .. 10 : Digits[i] = c
DigitVal(c) == (CHOOSE i \in 1 .. 10 : Digits[i] = c) - 1

\* str.lower(), one character
LowerChar(c) ==
  IF \E i \in 1 .. 26 : UpperCase[i] = c
  THEN LowerCase[CHOOSE i \in 1 .. 26 : UpperCase[i] = c]
  ELSE IF \E i \in 1 .. Len(CyrUpper) : CyrUpper[i] = c
  THEN CyrLower[CHOOSE i \in 1 .. Len(CyrUpper) : CyrUpper[i] = c]
  ELSE c

\* str.lower()
Lower(s) == [i \in 1 .. Len(s) |-> LowerChar(s[i])]

\* sub in s
Contains(s, sub) ==
  \E i \in 1 .. (Len(s) - Len(sub) + 1) : SubSeq(s, i, i + Len(sub) - 1) = sub

\* str.strip()
Strip(s) ==
  LET keep == {i \in 1 .. Len(s) : s[i] \notin WhiteSpace}
  IN  IF keep = {} THEN << >>
      ELSE LET lo == CHOOSE i \in keep : \A j \in keep : i <= j
               hi == CHOOSE i \in keep : \A j \in keep : j <= i
           IN  SubSeq(s, lo, hi)

\* float() of a run of decimal digits
RECURSIVE ParseDigits(_)
ParseDigits(ds) ==
  IF ds = << >> THEN 0
  ELSE 10 * ParseDigits(SubSeq(ds, 1, Len(ds) - 1)) + DigitVal(ds[Len(ds)])

\* ------------------------------------------------------- startup (Gemini)
\* A model name as listed by the provider: a namespace prefix and a name.
ModelName(ns, base) == [ns |-> ns, base |-> base]
WANTED(envModel) ==
  << IF envModel # "" THEN envModel ELSE "gemini-1.5-flash-8b",
     "gemini-1.5-flash-8b", "gemini-1.5-flash", "gemini-1.5-pro", "gemini-pro" >>

\* _normalize_wanted_name
normalize_wanted_name(name) ==
  IF name # "" THEN << ModelName("", name), ModelName("models/", name) >> ELSE << >>

\* x.endswith(candidate) or x == candidate
EndsWith(x, candidate) ==
  /\ x.base = candidate.base
  /\ candidate.ns = "" \/ x.ns = candidate.ns

\* An optional value: << >> is None, << v >> is the value v.
NoModel == << >>

\* The module-level selection of _gemini_model (None when the AI is disabled).
\* available: the listed models that support generateContent, in list order
\* (empty when list_models failed); initFails: configure or GenerativeModel
\* raised.
ConfigureModel(useGemini, sdk, apiKey, envModel, available, initFails) ==
  IF ~(useGemini /\ sdk /\ apiKey # "") THEN NoModel
  ELSE IF initFails THEN NoModel
  ELSE
    LET cands(w) == normalize_wanted_name(WANTED(envModel)[w])
        matches(cand) == {k \in 1 .. Len(available) : EndsWith(available[k], cand)}
        first(S) == CHOOSE k \in S : \A j \in S : k <= j
        hitc(w) == {c \in 1 .. Len(cands(w)) : matches(cands(w)[c]) # {}}
        wants == {w \in 1 .. 5 : hitc(w) # {}}
        chosen ==
          IF wants # {}
          THEN LET w == first(wants)
               IN  << available[first(matches(cands(w)[first(hitc(w))]))] >>
          ELSE IF available # << >> THEN << available[1] >> ELSE << >>
    IN  IF chosen # << >> /\ ~(chosen[1].ns = "" /\ chosen[1].base = "")
        THEN chosen ELSE NoModel

\* -------------------------------------------------- the Explanation Arbiter
\* _local_fallback_tip
local_fallback_tip(lg) == IF lg = "ru" THEN TipRu ELSE TipEn

\* a variant that takes every failure for a quota failure
IsQuotaError_Always(msg) == TRUE

\* "429" in msg or "quota" in msg.lower()
IsQuotaError(msg) ==
  \/ Contains(msg, <<"4", "2", "9">>)
  \/ Contains(Lower(msg), <<"q", "u", "o", "t", "a">>)

\* re.search(r"retry[_ ]delay[^\d]*(\d+)", msg, flags=re.I): group 1 of the
\* leftmost match as a number, << >> when there is no match.
RetryDelayMatch(msg) ==
  LET L == Lower(msg)
      n == Len(L)
      head(i) == /\ i + 10 <= n
                 /\ SubSeq(L, i, i + 4) = <<"r", "e", "t", "r", "y">>
                 /\ L[i + 5] \in {"_", " "}
                 /\ SubSeq(L, i + 6, i + 10) = <<"d", "e", "l", "a", "y">>
      starts == {i \in 1 .. n : head(i) /\ \E j \in (i + 11) .. n : IsDigit(L[j])}
  IN  IF starts = {} THEN << >>
      ELSE LET i0 == CHOOSE i \in starts : \A k \in starts : i <= k
               ds == {j \in (i0 + 11) .. n : IsDigit(L[j])}
               lo == CHOOSE j \in ds : \A k \in ds : j <= k
               run == {j \in lo .. n : \A k \in lo .. j : IsDigit(L[k])}
               hi == CHOOSE j \in run : \A k \in run : k <= j
           IN  << ParseDigits(SubSeq(L, lo, hi)) >>

\* retry = float(m.group(1)) if m else _ai_backoff_sec
RetryOf(m, backoff) == IF m # << >> THEN m[1] ELSE backoff

\* a variant without the cap on the window
CooldownAfterQuota_Uncapped(t, retry) == t + retry

\* time.time() + min(retry, _ai_backoff_max)
CooldownAfterQuota(t, retry) == t + Min(retry, ai_backoff_max)

\* a variant that grows the backoff by the base step instead of doubling it
BackoffAfterQuota_Linear(backoff) == Min(backoff + ai_backoff_init, ai_backoff_max)

\* a variant that doubles the backoff without the cap
BackoffAfterQuota_Uncapped(backoff) == backoff * 2

\* a variant that doubles a backoff read before the await of the call
BackoffAfterQuota_Stale(backoff) == Min(ai_backoff_init * 2, ai_backoff_max)

\* min(_ai_backoff_sec * 2, _ai_backoff_max)
BackoffAfterQuota(backoff) == Min(backoff * 2, ai_backoff_max)

\* variants of the gate that forget one of its two tests
ShortCircuit_NoCooldown(model, t, cooldown) == model = NoModel
ShortCircuit_NoModelTest(model, t, cooldown) == t < cooldown

\* not _gemini_model or time.time() < _ai_cooldown_until
ShortCircuit(model, t, cooldown) == model = NoModel \/ t < cooldown

\* variants of the reply: no truncation; no test for an empty text
ReplyOf_Untruncated(out, lg) == IF out # << >> THEN out ELSE local_fallback_tip(lg)
ReplyOf_NoEmptyTest(out, lg) == Take(out, MaxReply)

\* out[:500] if out else _local_fallback_tip(lang)
ReplyOf(out, lg) == IF out # << >> THEN Take(out, MaxReply) ELSE local_fallback_tip(lg)

\* a variant that sends the whole message
PayloadOf_Whole(text) == text

\* payload = (text or "")[:1500]
PayloadOf(text) == Take(text, MaxPayload)

\* the last two entries of a log
LastTwo(s) == IF Len(s) <= 2 THEN s ELSE SubSeq(s, Len(s) - 1, Len(s))

\* ------------------------------------------------------------------ inputs
\* the text argument of ai_explain_safety
Texts == {Rep(2), Rep(MaxPayload + 1)}
\* resp.text of the provider's answers
ReplyTexts == {<< >>, <<" ", "\n">>, <<" ", "o", "k", "\n">>, Rep(MaxReply + 1)}
\* str(e) of the exceptions the remote call raises
ErrorMessages ==
  {ErrQuotaDelay30, ErrQuotaDelay0, ErrQuotaDelayBig, ErrQuotaNoDelay,
   ErrNetwork, ErrDelayNoQuota}
\* what awaiting asyncio.to_thread(_call) yields: the value _call returned
\* (the stripped text) or the exception it raised
Returned(out) == [raised |-> FALSE, val |-> out]
Raised(msg) == [raised |-> TRUE, val |-> msg]
Outcomes ==
  {Returned(Strip(r)) : r \in ReplyTexts} \cup {Raised(m) : m \in ErrorMessages}

\* The two inspections of str(e), evaluated once per modelled message.
ErrorInfo ==
  [msg \in ErrorMessages |->
     [quota |-> IsQuotaError(msg), delay |-> RetryDelayMatch(msg)]]

\* ---------------------------------------------------------- the word lists
\* the built-in list of load_keywords
FallbackKeywords ==
  <<
     <<"t", "r", "a", "n", "s", "f", "e", "r">>,
     <<"u", "r", "g", "e", "n", "t">>, <<"m", "o", "n", "e", "y">>,
     <<"p", "r", "i", "z", "e">>, <<"w", "i", "n">>,
     <<"g", "r", "a", "n", "t">>, <<"l", "i", "n", "k">>,
     <<"c", "l", "i", "c", "k">>,
     <<"#p", "#e", "#r", "#e", "#v", "#e", "#d", "#i">>,
     <<"#s", "#r", "#o", "#ch", "#n", "#o">>,
     <<"#p", "#o", "#d", "#a", "#r", "#o", "#k">>,
     <<"#g", "#r", "#a", "#n", "#t">>,
     <<"#s", "#s", "#y", "#l", "#k", "#a">>,
     <<"#p", "#a", "#r", "#o", "#l", "#soft">>, <<"#b", "#a", "#n", "#k">>,
     <<"#l", "#o", "#t", "#e", "#r", "#e", "#ya">>,
     <<"#v", "#y", "#i", "#g", "#r", "#a", "#l">>,
     <<"#d", "#a", "#n", "#n", "#y", "#e">>
  >>

\* the markers of links and shorteners
LinkMarkers ==
  <<
     <<"h", "t", "t", "p", ":", "/", "/">>,
     <<"h", "t", "t", "p", "s", ":", "/", "/">>, <<"t", ".", "m", "e", "/">>,
     <<"b", "i", "t", ".", "l", "y">>, <<"t", "i", "n", "y", "u", "r", "l">>,
     <<"w", "a", ".", "m", "e", "/">>, <<"v", "k", ".", "c", "c">>,
     <<"g", "o", "o", ".", "g", "l">>, <<"l", "n", "k", "d", ".", "i", "n">>,
     <<"l", "i", "n", "k">>, <<"#s", "#s", "#y", "#l", "#k", "#a">>,
     <<"#p", "#e", "#r", "#e", "#j", "#d", "#i">>
  >>

\* the currency alternatives of the amount pattern
CurrencyTokens ==
  <<
     <<"KZT_SIGN">>, <<"#t", "#e", "#n", "#g", "#e">>, <<"k", "z", "t">>,
     <<"$">>, <<"u", "s", "d">>, <<"e", "u", "r">>, <<"EUR_SIGN">>,
     <<"#r", "#u", "#b">>, <<"RUB_SIGN">>
  >>

\* actions
actions ==
  <<
     <<"c", "l", "i", "c", "k">>, <<"#k", "#l", "#i", "#k", "#n", "#i">>,
     <<"#p", "#e", "#r", "#e", "#j", "#d", "#i">>,
     <<"#v", "#v", "#e", "#d", "#i">>,
     <<"#p", "#o", "#d", "#t", "#v", "#e", "#r", "#d", "#i">>,
     <<"#p", "#e", "#r", "#e", "#v", "#e", "#d", "#i">>,
     <<"#o", "#p", "#l", "#a", "#t", "#i">>,
     <<"f", "o", "l", "l", "o", "w">>, <<"o", "p", "e", "n">>,
     <<"c", "o", "n", "f", "i", "r", "m">>
  >>

\* rewards
rewards ==
  <<
     <<"#v", "#y", "#i", "#g", "#r", "#a", "#l">>,
     <<"#p", "#r", "#i", "#z">>,
     <<"#p", "#o", "#d", "#a", "#r", "#o", "#k">>,
     <<"#l", "#o", "#t", "#e", "#r", "#e", "#ya">>,
     <<"g", "r", "a", "n", "t">>, <<"#g", "#r", "#a", "#n", "#t">>,
     <<"w", "i", "n">>, <<"p", "r", "i", "z", "e">>,
     <<"r", "e", "w", "a", "r", "d">>,
     <<"#d", "#e", "#n", "#soft", "#g", "#i">>,
     <<"#d", "#o", "#h", "#o", "#d">>,
     <<"#i", "#n", "#v", "#e", "#s", "#t", "#i", "#c", "#i", "#ya">>
  >>

\* messages
TextUrgent ==
  <<
     "U", "r", "g", "e", "n", "t", "!", " ", "T", "r", "a", "n", "s", "f",
     "e", "r", " ", "m", "o", "n", "e", "y", " ", "n", "o", "w", ",", " ",
     "y", "o", "u", " ", "w", "o", "n", " ", "a", " ", "p", "r", "i", "z",
     "e", "!"
  >>

TextCoffee ==
  <<
     "L", "e", "t", "'", "s", " ", "m", "e", "e", "t", " ", "f", "o", "r",
     " ", "c", "o", "f", "f", "e", "e", " ", "t", "o", "m", "o", "r", "r",
     "o", "w"
  >>

TextUsd ==
  <<
     "P", "l", "e", "a", "s", "e", " ", "s", "e", "n", "d", " ", "1", ",",
     "5", "0", "0", ".", "0", "0", " ", "U", "S", "D", " ", "t", "o", "d",
     "a", "y"
  >>

TextRoom ==
  <<
     "r", "o", "o", "m", " ", "1", "5", "0", "0"
  >>

TextAllFour ==
  <<
     "#S", "#r", "#o", "#ch", "#n", "#o", "!", " ", "#P", "#e", "#r", "#e",
     "#v", "#e", "#d", "#i", " ", "5", " ", "0", "0", "0", " ", "#r", "#u",
     "#b", ",", " ", "#p", "#o", "#d", "#a", "#r", "#o", "#k", ":", " ",
     "#s", "#s", "#y", "#l", "#k", "#a"
  >>

TextWin ==
  <<
     "Y", "o", "u", " ", "W", "I", "N"
  >>

TextWinter ==
  <<
     "w", "i", "n", "t", "e", "r"
  >>


\* ------------------------------------------------------- the risk heuristic
Letters ==
  {LowerCase[i] : i \in 1 .. 26} \cup {UpperCase[i] : i \in 1 .. 26} \cup
  {CyrLower[i] : i \in 1 .. Len(CyrLower)} \cup {CyrUpper[i] : i \in 1 .. Len(CyrUpper)}
\* \w
WordChars == Letters \cup {Digits[i] : i \in 1 .. 10} \cup {"_"}

\* the table given to str.maketrans
map_l2c ==
  << <<"a", "#a">>, <<"e", "#e">>, <<"o", "#o">>, <<"p", "#r">>, <<"c", "#s">>,
     <<"x", "#h">>, <<"y", "#u">>, <<"k", "#k">>, <<"m", "#m">>, <<"h", "#n">>,
     <<"b", "#v">>, <<"t", "#t">> >>

\* str.translate(map_l2c)
Translate(s) ==
  [i \in 1 .. Len(s) |->
     IF \E k \in 1 .. Len(map_l2c) : map_l2c[k][1] = s[i]
     THEN map_l2c[CHOOSE k \in 1 .. Len(map_l2c) : map_l2c[k][1] = s[i]][2]
     ELSE s[i]]

\* re.sub(pattern+, " ", s) for a pattern that is a class of characters:
\* inRun[i] tells whether s[i] is in the class; every maximal run of such
\* characters becomes one space.
RECURSIVE SubRuns(_, _, _)
SubRuns(s, inRun, i) ==
  IF i > Len(s) THEN << >>
  ELSE IF inRun[i]
       THEN (IF i > 1 /\ inRun[i - 1] THEN << >> ELSE << " " >>) \o SubRuns(s, inRun, i + 1)
       ELSE << s[i] >> \o SubRuns(s, inRun, i + 1)

\* re.sub(r"[^\w\s]+", " ", t)
SubPunctuation(t) ==
  SubRuns(t, [i \in 1 .. Len(t) |-> t[i] \notin WordChars /\ t[i] \notin WhiteSpace], 1)

\* re.sub(r"\s+", " ", t)
SubSpaces(t) == SubRuns(t, [i \in 1 .. Len(t) |-> t[i] \in WhiteSpace], 1)

\* a variant that collapses and trims the white space before it removes the
\* punctuation
normalize_SpacesFirst(text) ==
  Translate(SubPunctuation(Strip(SubSpaces(Lower(text)))))

\* _normalize
normalize(text) == Translate(Strip(SubSpaces(SubPunctuation(Lower(text)))))

\* \b before position i of t (i = Len(t) + 1: at the end)
WordBoundary(t, i) ==
  (i - 1 >= 1 /\ t[i - 1] \in WordChars) # (i <= Len(t) /\ t[i] \in WordChars)

\* re.search(rf"\b{re.escape(w)}\b", t)
SearchWord(t, w) ==
  \E i \in 1 .. (Len(t) - Len(w) + 1) :
    /\ SubSeq(t, i, i + Len(w) - 1) = w
    /\ WordBoundary(t, i)
    /\ WordBoundary(t, i + Len(w))

\* t[i .. j - 1] is a run of decimal digits
DigitsBetween(t, i, j) == \A k \in i .. (j - 1) : k <= Len(t) /\ IsDigit(t[k])

\* the positions after (?:[\s., ]\d{3})* matched from position p on
RECURSIVE AfterGroups(_, _)
AfterGroups(t, p) ==
  {p} \cup
  (IF /\ p + 3 <= Len(t)
      /\ t[p] \in WhiteSpace \cup {".", ","}
      /\ DigitsBetween(t, p + 1, p + 4)
   THEN AfterGroups(t, p + 4) ELSE {})

\* the positions after (?:[.,]\d+)? matched from position p on
AfterDecimals(t, p) ==
  {p} \cup
  (IF p <= Len(t) /\ t[p] \in {".", ","}
   THEN {q \in (p + 2) .. (Len(t) + 1) : DigitsBetween(t, p + 1, q)} ELSE {})

\* the positions after \s? matched from position p on
AfterSpace(t, p) ==
  {p} \cup (IF p <= Len(t) /\ t[p] \in WhiteSpace THEN {p + 1} ELSE {})

\* re.search of the amount-and-currency pattern
SearchAmount(t) ==
  \E i \in 1 .. Len(t) :
    /\ WordBoundary(t, i)
    /\ \E a \in 1 .. 3 :
         /\ DigitsBetween(t, i, i + a)
         /\ \E g \in AfterGroups(t, i + a) :
              \E d \in AfterDecimals(t, g) :
                \E p \in AfterSpace(t, d) :
                  \E c \in 1 .. Len(CurrencyTokens) :
                    LET q == p + Len(CurrencyTokens[c]) IN
                      /\ q - 1 <= Len(t)
                      /\ SubSeq(t, p, q - 1) = CurrencyTokens[c]
                      /\ WordBoundary(t, q)

\* the reasons: a label and, for the keywords, the hits that ", ".join lists
Reason(label, items) == [label |-> label, items |-> items]
ReasonKeywords(hits) == Reason("found keywords: ", Take(hits, 5))
ReasonLink == Reason("contains link/shortener", << >>)
ReasonAmount == Reason("mentions money amount + currency", << >>)
ReasonActionReward == Reason("action + reward pattern", << >>)

\* the four detectors of looks_suspicious over the normalized text t
KeywordHits(keywords, t) ==
  SelectSeq(keywords, LAMBDA kw : kw # << >> /\ SearchWord(t, kw))
HasLink(t) == \E m \in 1 .. Len(LinkMarkers) : Contains(t, LinkMarkers[m])
HasActionReward(t) ==
  /\ \E a \in 1 .. Len(actions) : SearchWord(t, actions[a])
  /\ \E r \in 1 .. Len(rewards) : SearchWord(t, rewards[r])

\* the reasons the link detector appends
LinkReasons(t) == IF HasLink(t) THEN << ReasonLink >> ELSE << >>

\* a variant that runs the currency detector before the link detector
ReasonsOf_AmountFirst(keywords, t) ==
  (IF KeywordHits(keywords, t) # << >>
   THEN << ReasonKeywords(KeywordHits(keywords, t)) >> ELSE << >>)
  \o (IF SearchAmount(t) THEN << ReasonAmount >> ELSE << >>)
  \o LinkReasons(t)
  \o (IF HasActionReward(t) THEN << ReasonActionReward >> ELSE << >>)

\* the reasons list over the normalized text
ReasonsOf(keywords, t) ==
  (IF KeywordHits(keywords, t) # << >>
   THEN << ReasonKeywords(KeywordHits(keywords, t)) >> ELSE << >>)
  \o LinkReasons(t)
  \o (IF SearchAmount(t) THEN << ReasonAmount >> ELSE << >>)
  \o (IF HasActionReward(t) THEN << ReasonActionReward >> ELSE << >>)

\* looks_suspicious: (len(reasons) > 0, reasons)
looks_suspicious(keywords, text) ==
  LET reasons == ReasonsOf(keywords, normalize(text))
  IN  [suspicious |-> Len(reasons) > 0, reasons |-> reasons]

\* detect_lang
detect_lang(sample) ==
  IF \E i \in 1 .. Len(sample) :
       \E k \in 1 .. Len(CyrLower) : sample[i] = CyrLower[k] \/ sample[i] = CyrUpper[k]
  THEN "ru" ELSE "en"

\* ------------------------------------------------------------ load_keywords
\* the characters in code point order
CodeOrder ==
  << "\t", "\n", " ", "!", "\"", "#", "$", "%", "&", "'", "(", ")", "*", "+", ",",
     "-", ".", "/" >> \o Digits \o << ":", ";", "<", "=", ">", "?", "@" >> \o
  UpperCase \o << "[", "]", "^", "_" >> \o LowerCase \o
  << "{", "|", "}", "~", "NBSP" >> \o CyrUpper \o CyrLower \o
  << "EUR_SIGN", "KZT_SIGN", "RUB_SIGN" >>
CodePoint(c) == CHOOSE i \in 1 .. Len(CodeOrder) : CodeOrder[i] = c

\* a < b for two strings
RECURSIVE StrLess(_, _)
StrLess(a, b) ==
  IF b = << >> THEN FALSE
  ELSE IF a = << >> THEN TRUE
  ELSE IF a[1] # b[1] THEN CodePoint(a[1]) < CodePoint(b[1])
  ELSE StrLess(Tail(a), Tail(b))

\* sorted(S) for a set of strings
RECURSIVE Sorted(_)
Sorted(S) ==
  IF S = {} THEN << >>
  ELSE LET least == CHOOSE a \in S : \A b \in S \ {a} : StrLess(a, b)
       IN  << least >> \o Sorted(S \ {least})

\* An entry of the "keywords" list of scam_keywords.json: a string or not.
JsonStr(s) == [isStr |-> TRUE, val |-> s]
JsonOther == [isStr |-> FALSE, val |-> << >>]
\* The keyword document: << >> when it is missing or malformed, else
\* << the list under "keywords" >>.
KeywordFiles ==
  { << >>,
    << << JsonStr(<<"W", "i", "n">>), JsonOther, JsonStr(<<"l", "i", "n", "k">>),
          JsonStr(<<"w", "i", "n">>), JsonStr(<<"#P", "#r", "#i", "#z">>) >> >> }

\* load_keywords
load_keywords(file) ==
  IF file = << >> THEN FallbackKeywords
  ELSE Sorted({Lower(file[1][k].val) : k \in {j \in 1 .. Len(file[1]) : file[1][j].isStr}})

\* ------------------------------------------------------------ what users send
\* message.text or "" of the messages users send
BotTexts == {<< >>, TextCoffee, TextAllFour}
\* the payload of each text ai_explain_safety is called with, evaluated once
Payloads == [text \in Texts \cup BotTexts |-> PayloadOf(text)]
\* detect_lang and looks_suspicious of each of them, evaluated once
LangOf == [text \in BotTexts |-> detect_lang(text)]
VerdictOf ==
  [keywords \in {load_keywords(file) : file \in KeywordFiles}, text \in BotTexts |->
     looks_suspicious(keywords, text)]

\* a store that keeps a user's first text
Record_FirstWins(mem, u, text) ==
  IF mem[u] = << >> THEN [mem EXCEPT ![u] = << text >>] ELSE mem
\* a store that holds one user at a time
Record_Reset(mem, u, text) ==
  [v \in DOMAIN mem |-> IF v = u THEN << text >> ELSE << >>]
\* LAST_MSGS[uid] = txt
Record(mem, u, text) == [mem EXCEPT ![u] = << text >>]
\* LAST_MSGS.get(uid): << >> is None
Lookup(mem, u) == mem[u]

\* a handler that answers without waiting for ai_explain_safety
CanRespond_NoAwait(p) == p \in {"queued", "inflight", "done", "respond"}
\* the positions from which a handler goes on to send its reply: the await of
\* ai_explain_safety is over, or there was no call to await
CanRespond(p) == p \in {"done", "respond"}

\* ------------------------------------------------------------------- state
VARIABLES
  gemini_model,       \* _gemini_model: << >> (None) or << model name >>
  ai_cooldown_until,  \* _ai_cooldown_until
  ai_backoff_sec,     \* _ai_backoff_sec
  now,                \* time.time()
  ticks,              \* clock advances so far
  pc,                 \* per handler: position in ai_explain_safety
  lang,               \* per handler: the lang argument ("" outside a call)
  payload,            \* per handler: the payload _call gives to generate_content
  outcome,            \* per handler: << out or e >> once the await is over
  result,             \* per handler: the value ai_explain_safety returned
  remote_calls,       \* generate_content invocations so far
  windows,            \* the cooldown windows logged by the latest quota
                      \* failures in a row that carried no retry delay
                      \* (the last two of them)
  quota_failures,     \* how many quota failures were handled (and logged)
  KEYWORDS,           \* KEYWORDS: the list load_keywords returned at import
  LAST_MSGS,          \* LAST_MSGS: per user << >> (no entry) or << text >>
  last_rec,           \* per user: the text of the user's latest message that
                      \* analyze took in, << >> if none
  updates,            \* how many messages and callbacks were taken in
  sent,               \* << >> or << the latest reply sent >>
  upd,                \* per handler: the update being handled
  verdict,            \* per handler: << >> or << what looks_suspicious returned >>
  ev                  \* a text, its successive normalizations and its verdict

botVars == << KEYWORDS, LAST_MSGS, last_rec, updates, sent, upd, verdict >>

vars ==
  << gemini_model, ai_cooldown_until, ai_backoff_sec, now, ticks, pc, lang,
     payload, outcome, result, remote_calls, windows, quota_failures,
     botVars, ev >>

Users == {1, 2}
NoMsg == [kind |-> "none", seq |-> 0, uid |-> 0, text |-> << >>, last |-> << >>]
NoEv == [text |-> << >>, norm |-> << >>, out |-> << >>]

AvailableLists ==
  { << >>,
    << ModelName("", "") >>,
    << ModelName("models/", "text-bison"), ModelName("models/", "gemini-pro") >> }

\* the module-level state once main.py is imported
Loaded(file) ==
  /\ \E useGemini \in BOOLEAN, sdk \in BOOLEAN, apiKey \in {"", "key"},
        envModel \in {"", "gemini-pro"}, available \in AvailableLists,
        initFails \in BOOLEAN :
       gemini_model = ConfigureModel(useGemini, sdk, apiKey, envModel, available, initFails)
  /\ ai_cooldown_until = 0
  /\ ai_backoff_sec = ai_backoff_init
  /\ now = 0
  /\ ticks = 0
  /\ pc = [h \in Handlers |-> "idle"]
  /\ lang = [h \in Handlers |-> ""]
  /\ payload = [h \in Handlers |-> << >>]
  /\ outcome = [h \in Handlers |-> << >>]
  /\ result = [h \in Handlers |-> << >>]
  /\ remote_calls = 0
  /\ windows = << >>
  /\ quota_failures = 0
  /\ KEYWORDS = load_keywords(file)
  /\ LAST_MSGS = [u \in Users |-> << >>]
  /\ last_rec = [u \in Users |-> << >>]
  /\ updates = 0
  /\ sent = << >>
  /\ upd = [h \in Handlers |-> NoMsg]
  /\ verdict = [h \in Handlers |-> << >>]

\* no keyword document beside the program
Init == Loaded(<< >>) /\ ev = NoEv

\* ai_explain_safety up to the await: the short circuit returns the tip, or
\* _call is handed to a worker thread.
Explain(h, text, lg) ==
  /\ lang' = [lang EXCEPT ![h] = lg]
  /\ IF ShortCircuit(gemini_model, now, ai_cooldown_until)
     THEN /\ pc' = [pc EXCEPT ![h] = "done"]
          /\ result' = [result EXCEPT ![h] = local_fallback_tip(lg)]
          /\ UNCHANGED payload
     ELSE /\ pc' = [pc EXCEPT ![h] = "queued"]
          /\ payload' = [payload EXCEPT ![h] = Payloads[text]]
          /\ UNCHANGED result
  /\ UNCHANGED << gemini_model, ai_cooldown_until, ai_backoff_sec, now, ticks,
                  outcome, remote_calls, windows, quota_failures >>

\* a call of ai_explain_safety by a handler that holds no update
Enter(h, text, lg) ==
  /\ pc[h] = "idle"
  /\ Explain(h, text, lg)
  /\ UNCHANGED << botVars, ev >>

\* The worker thread runs _call: generate_content is invoked with the payload,
\* which from then on is the provider's.
Invoke(h) ==
  /\ pc[h] = "queued"
  /\ remote_calls < MaxRemoteCalls
  /\ pc' = [pc EXCEPT ![h] = "inflight"]
  /\ remote_calls' = remote_calls + 1
  /\ payload' = [payload EXCEPT ![h] = << >>]
  /\ UNCHANGED << gemini_model, ai_cooldown_until, ai_backoff_sec, now, ticks,
                  lang, outcome, result, windows, quota_failures, botVars, ev >>

\* The provider has answered or failed and the coroutine resumes after the
\* await with o: the return of the try body, or the exception handler.
Resume(h, o) ==
  /\ pc[h] = "inflight"
  /\ pc' = [pc EXCEPT ![h] = "done"]
  /\ outcome' = [outcome EXCEPT ![h] = << o >>]
  /\ IF ~o.raised
     THEN /\ result' = [result EXCEPT ![h] = ReplyOf(o.val, lang[h])]
          /\ UNCHANGED << ai_cooldown_until, ai_backoff_sec, windows, quota_failures >>
     ELSE /\ result' = [result EXCEPT ![h] = local_fallback_tip(lang[h])]
          /\ IF ErrorInfo[o.val].quota
             THEN LET retry == RetryOf(ErrorInfo[o.val].delay, ai_backoff_sec) IN
                    /\ ai_cooldown_until' = CooldownAfterQuota(now, retry)
                    /\ ai_backoff_sec' = BackoffAfterQuota(ai_backoff_sec)
                    /\ windows' =
                         IF ErrorInfo[o.val].delay = << >>
                         THEN LastTwo(Append(windows, CooldownAfterQuota(now, retry) - now))
                         ELSE << >>
                    /\ quota_failures' = quota_failures + 1
             ELSE UNCHANGED << ai_cooldown_until, ai_backoff_sec, windows, quota_failures >>
  /\ UNCHANGED << gemini_model, now, ticks, lang, payload, remote_calls,
                  botVars, ev >>

\* The provider never answers: generate_content blocks its worker thread and
\* the await has no timeout, so the coroutine stays suspended.
Hang(h) ==
  /\ pc[h] = "inflight"
  /\ pc' = [pc EXCEPT ![h] = "hung"]
  /\ UNCHANGED << gemini_model, ai_cooldown_until, ai_backoff_sec, now, ticks,
                  lang, payload, outcome, result, remote_calls, windows,
                  quota_failures, botVars, ev >>

\* The caller takes the returned tip; the handler is free for the next message.
Finish(h) ==
  /\ pc[h] = "done"
  /\ pc' = [pc EXCEPT ![h] = "idle"]
  /\ lang' = [lang EXCEPT ![h] = ""]
  /\ outcome' = [outcome EXCEPT ![h] = << >>]
  /\ result' = [result EXCEPT ![h] = << >>]
  /\ UNCHANGED << gemini_model, ai_cooldown_until, ai_backoff_sec, now, ticks,
                  payload, remote_calls, windows, quota_failures, botVars, ev >>

\* The clock advances.
Tick(d) ==
  /\ ticks < MaxTicks
  /\ now' = now + d
  /\ ticks' = ticks + 1
  /\ UNCHANGED << gemini_model, ai_cooldown_until, ai_backoff_sec, pc, lang,
                  payload, outcome, result, remote_calls, windows,
                  quota_failures, botVars, ev >>

Next ==
  \/ \E h \in Handlers, text \in Texts, lg \in Langs : Enter(h, text, lg)
  \/ \E h \in Handlers : Invoke(h)
  \/ \E h \in Handlers, o \in Outcomes : Resume(h, o)
  \/ \E h \in Handlers : Hang(h)
  \/ \E h \in Handlers : Finish(h)
  \/ \E d \in TickSteps : Tick(d)

Spec == Init /\ [][Next]_vars

\* The event loop runs every ready coroutine and the executor runs every
\* submitted call; a provider that has not hung answers.  Nothing obliges
\* users to send messages or the clock model to advance.
FairSpec ==
  /\ Spec
  /\ \A h \in Handlers :
       /\ WF_vars(Invoke(h))
       /\ WF_vars(\E o \in Outcomes : Resume(h, o))
       /\ WF_vars(Finish(h))

\* ---------------------------------------------------------- the bot handlers
\* a verdict that forgets the keywords once the provider's quota ran out
Verdict_Stateful(text) ==
  looks_suspicious(IF quota_failures > 0 THEN << >> ELSE KEYWORDS, text)
\* looks_suspicious(txt) as analyze calls it: over the module's KEYWORDS
Verdict(text) == VerdictOf[KEYWORDS, text]

\* analyze up to its first await: the text is remembered and judged; if it is
\* suspicious ai_explain_safety is called, else the reply is ready.
Analyze(h, u, txt) ==
  /\ pc[h] = "idle"
  /\ updates < MaxUpdates
  /\ updates' = updates + 1
  /\ LAST_MSGS' = Record(LAST_MSGS, u, txt)
  /\ last_rec' = [last_rec EXCEPT ![u] = << txt >>]
  /\ upd' = [upd EXCEPT ![h] =
               [kind |-> "message", seq |-> updates + 1, uid |-> u, text |-> txt,
                last |-> << >>]]
  /\ verdict' = [verdict EXCEPT ![h] = << Verdict(txt) >>]
  /\ IF Verdict(txt).suspicious
     THEN Explain(h, txt, LangOf[txt])
     ELSE /\ pc' = [pc EXCEPT ![h] = "respond"]
          /\ lang' = [lang EXCEPT ![h] = LangOf[txt]]
          /\ UNCHANGED << gemini_model, ai_cooldown_until, ai_backoff_sec, now,
                          ticks, payload, outcome, result, remote_calls, windows,
                          quota_failures >>
  /\ UNCHANGED << KEYWORDS, sent, ev >>

\* callbacks for "help" up to its first await, call.answer
HelpStart(h, u, lg) ==
  /\ pc[h] = "idle"
  /\ updates < MaxUpdates
  /\ updates' = updates + 1
  /\ pc' = [pc EXCEPT ![h] = "help"]
  /\ lang' = [lang EXCEPT ![h] = lg]
  /\ upd' = [upd EXCEPT ![h] =
               [kind |-> "help", seq |-> updates + 1, uid |-> u, text |-> << >>,
                last |-> << >>]]
  /\ UNCHANGED << gemini_model, ai_cooldown_until, ai_backoff_sec, now, ticks,
                  payload, outcome, result, remote_calls, windows, quota_failures,
                  KEYWORDS, LAST_MSGS, last_rec, sent, verdict, ev >>

\* callbacks after call.answer: the user's last text is looked up and, if
\* there is a non-empty one, ai_explain_safety is called with it.
HelpLookup(h) ==
  /\ pc[h] = "help"
  /\ LET last == Lookup(LAST_MSGS, upd[h].uid) IN
       /\ upd' = [upd EXCEPT ![h].last = last]
       /\ IF last # << >> /\ last[1] # << >>
          THEN Explain(h, last[1], lang[h])
          ELSE /\ pc' = [pc EXCEPT ![h] = "respond"]
               /\ UNCHANGED << gemini_model, ai_cooldown_until, ai_backoff_sec,
                               now, ticks, lang, payload, outcome, result,
                               remote_calls, windows, quota_failures >>
  /\ UNCHANGED << KEYWORDS, LAST_MSGS, last_rec, updates, sent, verdict, ev >>

\* message.answer / call.message.answer: the reply, with the tip that
\* ai_explain_safety returned if it was called, is sent and the handler ends.
Respond(h) ==
  /\ upd[h].kind # "none"
  /\ CanRespond(pc[h])
  /\ sent' = << [seq |-> upd[h].seq, uid |-> upd[h].uid, kind |-> upd[h].kind,
                  text |-> upd[h].text, verdict |-> verdict[h], tip |-> result[h]] >>
  /\ pc' = [pc EXCEPT ![h] = "idle"]
  /\ lang' = [lang EXCEPT ![h] = ""]
  /\ outcome' = [outcome EXCEPT ![h] = << >>]
  /\ result' = [result EXCEPT ![h] = << >>]
  /\ upd' = [upd EXCEPT ![h] = NoMsg]
  /\ verdict' = [verdict EXCEPT ![h] = << >>]
  /\ UNCHANGED << gemini_model, ai_cooldown_until, ai_backoff_sec, now, ticks,
                  payload, remote_calls, windows, quota_failures, KEYWORDS,
                  LAST_MSGS, last_rec, updates, ev >>

\* what the provider does to the calls of a burst of updates: an answer, a
\* quota failure, another failure
BotOutcomes ==
  {Returned(<<"o", "k">>), Raised(ErrQuotaNoDelay), Raised(ErrNetwork)}

\* The handlers over a burst of updates, during which the clock stands still.
BotNext ==
  \/ \E h \in Handlers, u \in Users, txt \in BotTexts : Analyze(h, u, txt)
  \/ \E h \in Handlers, u \in Users, lg \in Langs : HelpStart(h, u, lg)
  \/ \E h \in Handlers : HelpLookup(h)
  \/ \E h \in Handlers : Invoke(h)
  \/ \E h \in Handlers, o \in BotOutcomes : Resume(h, o)
  \/ \E h \in Handlers : Hang(h)
  \/ \E h \in Handlers : Respond(h)

BotSpec == Init /\ [][BotNext]_vars

\* ------------------------------------------------- the heuristic on its own
\* the characters short texts are drawn over: a letter the normalizer folds,
\* its capital, one it keeps, a Cyrillic capital, blanks, punctuation, the
\* underscore and a digit
EvalAlphabet == << "t", "T", "z", "#B", " ", "\t", "!", "_", "5" >>
TextsOver(n) ==
  UNION {[1 .. k -> {EvalAlphabet[i] : i \in 1 .. Len(EvalAlphabet)}] : k \in 0 .. n}
EvalTexts ==
  TextsOver(MaxTextLen) \cup
    {TextUrgent, TextCoffee, TextUsd, TextRoom, TextAllFour, TextWin, TextWinter}

EvalInit ==
  /\ \E file \in KeywordFiles : Loaded(file)
  /\ \E text \in EvalTexts : ev = [text |-> text, norm |-> << >>, out |-> << >>]

\* _normalize applied to the text, then to what it returned
Normalize ==
  /\ Len(ev.norm) < 2
  /\ ev' = [ev EXCEPT !.norm =
              Append(@, normalize(IF @ = << >> THEN ev.text ELSE @[Len(@)]))]
  /\ UNCHANGED << gemini_model, ai_cooldown_until, ai_backoff_sec, now, ticks,
                  pc, lang, payload, outcome, result, remote_calls, windows,
                  quota_failures, botVars >>

\* looks_suspicious applied to the text
Evaluate ==
  /\ ev.out = << >>
  /\ ev' = [ev EXCEPT !.out = << looks_suspicious(KEYWORDS, ev.text) >>]
  /\ UNCHANGED << gemini_model, ai_cooldown_until, ai_backoff_sec, now, ticks,
                  pc, lang, payload, outcome, result, remote_calls, windows,
                  quota_failures, botVars >>

EvalNext == Normalize \/ Evaluate

EvalSpec == EvalInit /\ [][EvalNext]_vars

\* ================================================================ properties
\* The modelled failures by what they are: the quota failures with the retry
\* delay the provider wrote into them (<< >>: none), and the other failures.
QuotaDelays ==
  { << ErrQuotaDelay30, << 30 >> >>, << ErrQuotaDelay0, << 0 >> >>,
    << ErrQuotaDelayBig, << 4000 >> >>, << ErrQuotaNoDelay, << >> >> }
OtherFailures == {ErrNetwork, ErrDelayNoQuota}

\* the step in which handler h's call of ai_explain_safety starts
Called(h) == pc[h] = "idle" /\ pc'[h] # "idle"
\* the step in which handler h's await is over and the call returns
Resumed(h) == pc[h] = "inflight" /\ pc'[h] = "done"
\* the tip for the language of handler h's call
TipOf(h) == IF lang'[h] = "ru" THEN TipRu ELSE TipEn
AiStateUnchanged ==
  /\ ai_cooldown_until' = ai_cooldown_until
  /\ ai_backoff_sec' = ai_backoff_sec

\* C1: a call made while now < cooldown_until returns the local fallback tip
\* of its language at once, invokes no remote call and changes neither
\* cooldown_until nor backoff_seconds.
C1_CooldownShortCircuit ==
  [][\A h \in Handlers :
       (Called(h) /\ now < ai_cooldown_until) =>
         /\ pc'[h] = "done"
         /\ result'[h] = TipOf(h)
         /\ remote_calls' = remote_calls
         /\ AiStateUnchanged]_vars

C1_Witness ==
  /\ gemini_model # NoModel
  /\ now < ai_cooldown_until
  /\ \E h \in Handlers :
       pc[h] = "done" /\ outcome[h] = << >> /\ result[h] = TipRu

\* C2: a quota failure at time now sets cooldown_until to now + min(d, 3600),
\* d being the retry delay found in the error or else the current backoff,
\* then sets backoff_seconds to min(2 * backoff_seconds, 3600) and returns the
\* tip; no cooldown window is ever longer than 3600 seconds.
C2_QuotaTransition ==
  /\ [][\A h \in Handlers : \A q \in QuotaDelays :
          (Resumed(h) /\ outcome'[h] = << Raised(q[1]) >>) =>
            LET d == IF q[2] # << >> THEN q[2][1] ELSE ai_backoff_sec IN
              /\ ai_cooldown_until' = now + Min(d, 3600)
              /\ ai_backoff_sec' = Min(2 * ai_backoff_sec, 3600)
              /\ result'[h] = TipOf(h)]_vars
  /\ [](ai_cooldown_until - now <= 3600)

C2_Witness ==
  /\ ai_cooldown_until = now + 3600
  /\ ai_backoff_sec = 240
  /\ \E h \in Handlers :
       pc[h] = "done" /\ outcome[h] = << Raised(ErrQuotaDelayBig) >>

\* C3: with no remote generator configured at startup every call returns the
\* tip of its language, the number of remote calls stays zero, and
\* cooldown_until and backoff_seconds keep their initial values.
C3_DisabledMode ==
  gemini_model = NoModel =>
    /\ remote_calls = 0
    /\ ai_cooldown_until = 0
    /\ ai_backoff_sec = 60
    /\ \A h \in Handlers :
         /\ pc[h] \in {"idle", "done"}
         /\ pc[h] = "done" => result[h] = (IF lang[h] = "ru" THEN TipRu ELSE TipEn)

C3_Witness ==
  /\ gemini_model = NoModel
  /\ ticks > 0
  /\ pc[1] = "done" /\ lang[1] = "ru"
  /\ pc[2] = "done" /\ lang[2] = "en"

\* C4: a failure without a quota indicator returns the tip and changes neither
\* cooldown_until nor backoff_seconds.
C4_OtherFailureKeepsState ==
  [][\A h \in Handlers : \A e \in OtherFailures :
       (Resumed(h) /\ outcome'[h] = << Raised(e) >>) =>
         /\ result'[h] = TipOf(h)
         /\ AiStateUnchanged]_vars

C4_Witness ==
  /\ ai_backoff_sec = 120
  /\ \E h \in Handlers :
       pc[h] = "done" /\ outcome[h] = << Raised(ErrDelayNoQuota) >>

\* C5: a call whose remote call returned a text returns that text cut to at
\* most 500 characters; no remote call that returns (with or without text)
\* changes cooldown_until or backoff_seconds.
C5_SuccessPath ==
  [][\A h \in Handlers :
       (Resumed(h) /\ ~outcome'[h][1].raised) =>
         /\ AiStateUnchanged
         /\ outcome'[h][1].val # << >> =>
              /\ Len(result'[h]) <= 500
              /\ result'[h] =
                   [i \in 1 .. Min(Len(outcome'[h][1].val), 500) |-> outcome'[h][1].val[i]]]_vars

C5_Witness ==
  /\ ai_backoff_sec = 120
  /\ \E h \in Handlers :
       /\ pc[h] = "done"
       /\ outcome[h] = << Returned(Rep(501)) >>
       /\ Len(result[h]) = 500

\* C6: whatever the remote call did (text, empty text, quota failure, other
\* failure), the call returns a non-empty explanation.
C6_ExplainTotal ==
  \A h \in Handlers :
    /\ pc[h] = "done" => Len(result[h]) > 0
    /\ pc[h] \in {"idle", "queued", "inflight", "hung", "done"}

C6_Witness ==
  \E h \in Handlers :
    pc[h] = "done" /\ outcome[h] = << Returned(<< >>) >> /\ result[h] = TipEn

\* C7: every call eventually returns, even when the provider never answers.
C7_CallReturns ==
  \A h \in Handlers : (pc[h] = "inflight") ~> (pc[h] = "done")

\* C8: handling a quota failure never moves cooldown_until backwards.
C8_CooldownOnlyAdvances ==
  [][ai_cooldown_until' >= ai_cooldown_until]_vars

\* C9: the remote generator is never invoked at a time before cooldown_until.
C9_NoCallInsideCooldown ==
  [][\A h \in Handlers :
       (pc[h] = "queued" /\ pc'[h] = "inflight") => now >= ai_cooldown_until]_vars

\* C10: of two quota failures in a row without a suggested delay, the second
\* cooldown window is min(2 * the first, 3600).
C10_BackoffGrowth ==
  Len(windows) = 2 => windows[2] = Min(2 * windows[1], 3600)

C10_Witness ==
  windows = << 1920, 3600 >>

\* C11: backoff_seconds stays within 60..3600 and no step ever lowers it.
C11_BackoffMonotoneBounded ==
  /\ [](60 <= ai_backoff_sec /\ ai_backoff_sec <= 3600)
  /\ [][ai_backoff_sec' >= ai_backoff_sec]_vars

C11_Witness ==
  /\ ai_backoff_sec = 3600
  /\ now >= ai_cooldown_until
  /\ \E h \in Handlers :
       pc[h] = "done" /\ outcome[h] = << Returned(<<"o", "k">>) >>

\* C12: with a generator configured, a call made when now >= cooldown_until
\* is handed to the remote generator, with a payload of at most 1500
\* characters, whatever quota failures came before.
C12_CooldownNotSticky ==
  /\ [][\A h \in Handlers :
          (Called(h) /\ gemini_model # NoModel /\ now >= ai_cooldown_until) =>
            /\ pc'[h] = "queued"
            /\ Len(payload'[h]) <= 1500]_vars
  /\ [][\A h \in Handlers :
          (pc[h] = "queued" /\ pc'[h] # "queued") =>
            /\ pc'[h] = "inflight"
            /\ Len(payload[h]) <= 1500
            /\ remote_calls' = remote_calls + 1]_vars

C12_Witness ==
  /\ ai_cooldown_until = 30
  /\ now = 31
  /\ quota_failures = 1
  /\ \E h \in Handlers : pc[h] = "queued" /\ Len(payload[h]) = 1500

\* C20: every quota failure applies its update whole: after k quota failures
\* backoff_seconds is min(60 * 2^k, 3600), also when the failing calls
\* overlapped.
C20_QuotaUpdatesAtomic ==
  ai_backoff_sec = Min(60 * 2 ^ quota_failures, 3600)

C20_Witness ==
  /\ now = 0
  /\ quota_failures = 2
  /\ ai_backoff_sec = 240
  /\ \A h \in Handlers :
       pc[h] = "done" /\ outcome[h] = << Raised(ErrQuotaNoDelay) >>
\* the detector a reason comes from: 1 keyword, 2 link, 3 currency,
\* 4 action+reward
DetectorOf(r) ==
  IF r.label = "found keywords: " THEN 1
  ELSE IF r = [label |-> "contains link/shortener", items |-> << >>] THEN 2
  ELSE IF r = [label |-> "mentions money amount + currency", items |-> << >>] THEN 3
  ELSE IF r = [label |-> "action + reward pattern", items |-> << >>] THEN 4
  ELSE 0

\* C16: looks_suspicious returns suspicious exactly when the reason list is not
\* empty; every reason comes from one of the four detectors, and the detectors
\* of the reasons strictly increase along the list (so at most four reasons,
\* none twice, in the order keyword, link, currency, action+reward).
C16_AggregatorShape ==
  ev.out # << >> =>
    LET r == ev.out[1].reasons IN
      /\ ev.out[1].suspicious = (Len(r) > 0)
      /\ Len(r) <= 4
      /\ \A i \in 1 .. Len(r) : DetectorOf(r[i]) \in 1 .. 4
      /\ \A i \in 1 .. Len(r), j \in 1 .. Len(r) :
           i < j => DetectorOf(r[i]) < DetectorOf(r[j])

C16_Witness ==
  /\ ev.text = TextAllFour
  /\ ev.out # << >>
  /\ ev.out[1].suspicious
  /\ Len(ev.out[1].reasons) = 4

\* C18: with the built-in keyword list, the text "Urgent! Transfer money now,
\* you won a prize!" is found suspicious and the action+reward reason is among
\* its reasons.
C18_UrgentIsSuspicious ==
  (ev.text = TextUrgent /\ KEYWORDS = FallbackKeywords /\ ev.out # << >>) =>
    /\ ev.out[1].suspicious
    /\ \E i \in 1 .. Len(ev.out[1].reasons) : DetectorOf(ev.out[1].reasons[i]) = 4

\* C19: normalizing a normalized text returns it unchanged.
C19_NormalizerIdempotent ==
  Len(ev.norm) = 2 => ev.norm[2] = ev.norm[1]

C19_Witness ==
  /\ ev.text = << "T", "!", "\t" >>
  /\ Len(ev.norm) = 2
  /\ ev.norm[2] = << "#t" >>
\* the step in which handler h sends its reply and ends
Responded(h) == upd[h].kind # "none" /\ upd'[h].kind = "none"
\* the step in which analyze takes in a message of user u
RecordedFor(u) ==
  \E h \in Handlers :
    upd[h].kind = "none" /\ upd'[h].kind = "message" /\ upd'[h].uid = u
\* the step in which handler h gets a verdict from looks_suspicious
Evaluated(h) == verdict[h] = << >> /\ verdict'[h] # << >>

\* C13: the reply to a message found suspicious is sent only once the call of
\* ai_explain_safety made for that message has returned, and carries the tip
\* it returned.
C13_AwaitBeforeRespond ==
  [][\A h \in Handlers :
       (Responded(h) /\ upd[h].kind = "message" /\ verdict[h][1].suspicious) =>
         /\ pc[h] = "done"
         /\ result[h] # << >>
         /\ sent' = << [seq |-> upd[h].seq, uid |-> upd[h].uid, kind |-> "message",
                        text |-> upd[h].text, verdict |-> verdict[h],
                        tip |-> result[h]] >>]_vars

\* The reply to user 1's suspicious first message, with the provider's text, is
\* the latest one sent although user 2's later message has been handled too.
C13_Witness ==
  /\ updates = 2
  /\ \A h \in Handlers : pc[h] = "idle"
  /\ LAST_MSGS[2] # << >>
  /\ sent # << >>
  /\ sent[1].seq = 1 /\ sent[1].uid = 1 /\ sent[1].kind = "message"
  /\ sent[1].verdict[1].suspicious
  /\ sent[1].tip = << "o", "k" >>

\* C14: at every moment the lookup for a user gives the text of the user's
\* latest recorded message, and nothing for a user with no recorded message;
\* that is what the help callback finds when it looks the user up.
C14_LastWriteWins ==
  /\ [](\A u \in Users : Lookup(LAST_MSGS, u) = last_rec[u])
  /\ [][\A h \in Handlers :
          (pc[h] = "help" /\ pc'[h] # "help") => upd'[h].last = last_rec[upd[h].uid]]_vars

\* User 1 sent the all-four text and then the coffee text; the help callback
\* of user 1 found the coffee text; nothing is stored for user 2.
C14_Witness ==
  /\ updates = 3
  /\ sent # << >>
  /\ sent[1].seq = 1 /\ sent[1].uid = 1 /\ sent[1].text = TextAllFour
  /\ Lookup(LAST_MSGS, 2) = << >>
  /\ \E h \in Handlers :
       /\ upd[h].kind = "help" /\ upd[h].seq = 3 /\ upd[h].uid = 1
       /\ upd[h].last = << TextCoffee >>

\* C15: a step that records a message of user u leaves the stored entry of
\* every other user as it was.
C15_EntriesIndependent ==
  [][\A u \in Users :
       RecordedFor(u) => \A v \in Users \ {u} : LAST_MSGS'[v] = LAST_MSGS[v]]_vars

\* Messages of both users are being handled at once, the second recorded while
\* the first waits for the provider, and each user's entry holds that user's
\* text.
C15_Witness ==
  /\ upd[1].kind = "message" /\ upd[1].uid = 1 /\ upd[1].seq = 1
  /\ upd[2].kind = "message" /\ upd[2].uid = 2 /\ upd[2].seq = 2
  /\ pc[1] = "inflight"
  /\ LAST_MSGS[1] = << TextAllFour >>
  /\ LAST_MSGS[2] = << TextCoffee >>

\* C17: the step in which looks_suspicious is called changes neither
\* cooldown_until nor backoff_seconds nor the keyword list, issues no remote
\* call and stores nothing but the message analyze records for its sender;
\* the keyword list never changes; and any two verdicts for the same text are
\* equal, whether held by two handlers at once or by a handler and by the
\* latest reply sent.
C17_EvaluatePure ==
  /\ [][KEYWORDS' = KEYWORDS]_vars
  /\ [][\A h \in Handlers :
          Evaluated(h) =>
            /\ AiStateUnchanged
            /\ remote_calls' = remote_calls
            /\ \A v \in Users \ {upd'[h].uid} : LAST_MSGS'[v] = LAST_MSGS[v]
            /\ LAST_MSGS'[upd'[h].uid] = << upd'[h].text >>]_vars
  /\ [](\A h \in Handlers :
          verdict[h] # << >> =>
            /\ \A g \in Handlers :
                 (verdict[g] # << >> /\ upd[g].text = upd[h].text) =>
                   verdict[g] = verdict[h]
            /\ (sent # << >> /\ sent[1].kind = "message" /\ sent[1].text = upd[h].text) =>
                 sent[1].verdict = verdict[h])

\* The all-four text was judged, a quota failure followed, and the same text
\* is judged again with the same four reasons.
C17_Witness ==
  /\ quota_failures = 1
  /\ sent # << >>
  /\ sent[1].seq = 1 /\ sent[1].text = TextAllFour
  /\ \E h \in Handlers :
       /\ upd[h].seq = 3 /\ upd[h].text = TextAllFour
       /\ verdict[h] = sent[1].verdict
       /\ Len(verdict[h][1].reasons) = 4
====
